---- MODULE Spec2Model ----
(***************************************************************************)
(* Model of mysqloperator/controller/innodbcluster/logs/logs_types_api.py  *)
(*                                                                         *)
(* Two state machines share the module:                                    *)
(*   Spec      the StatefulSet template patched by add_to_sts_spec, kept   *)
(*             in both representations the code accepts (a dict tree and   *)
(*             a typed V1StatefulSet), the same calls applied to each;     *)
(*   SpecLogs  one GeneralLogSpec, ErrorLogSpec and SlowQueryLogSpec       *)
(*             instance driven through parse / validate / get_cm_data.     *)
(***************************************************************************)
EXTENDS Integers, Sequences, FiniteSets, TLC

VARIABLES
    dsts,      \* the template as a dict tree (sts["spec"]["template"]["spec"])
    tsts,      \* the template as a V1StatefulSet (sts.spec.template.spec)
    dsts0,     \* dsts as it was before the first call
    tsts0,     \* tsts as it was before the first call
    last,      \* the arguments and outcome of the latest add_to_sts_spec call
    applied,   \* the mount descriptors add_to_sts_spec was called with so far
    cms,       \* the cm_name arguments of the calls so far
    args,      \* the container_name add_to_sts_spec is called with
    general,   \* the GeneralLogSpec instance
    error,     \* the ErrorLogSpec instance
    slow,      \* the SlowQueryLogSpec instance
    op         \* the latest operation on a log spec instance and its outcome

stsVars == <<dsts, tsts, dsts0, tsts0, last, applied, cms, args>>
logVars == <<general, error, slow, op>>
vars == <<dsts, tsts, dsts0, tsts0, last, applied, cms, args, general, error, slow, op>>

(***************************************************************************)
(* Mount descriptors: ConfigMapMountBase.__init__ and the three subclasses *)
(***************************************************************************)

ConfigMapMountBase(volume_mount_name, config_file_name, config_file_mount_path) ==
    [volume_mount_name |-> volume_mount_name,
     config_file_name |-> config_file_name,
     config_file_mount_path |-> config_file_mount_path]

GeneralLogMount ==
    ConfigMapMountBase("general-log-config", "general-log.cnf", "/etc/my.cnf.d")

ErrorLogMount ==
    ConfigMapMountBase("error-log-config", "error-log.cnf", "/etc/my.cnf.d")

SlowQueryLogMount ==
    ConfigMapMountBase("slow-query-log-config", "slow-query-log.cnf", "/etc/my.cnf.d")

\* The three log specs of ServerLogType.
LogSpecMounts == {ErrorLogMount, GeneralLogMount, SlowQueryLogMount}

\* A descriptor with the general log's volume name and another file name:
\* the constructor takes any triple.
RenamedGeneralLogMount ==
    ConfigMapMountBase("general-log-config", "general-log-v2.cnf", "/etc/my.cnf.d")

Mounts == LogSpecMounts \cup {RenamedGeneralLogMount}

ContainerNames == {"logcollector", "mysql"}

CmNames == {"mycluster-logs", "othercluster-logs"}

\* 0o644
DefaultMode == 420

(***************************************************************************)
(* Template entries.  repr tells how Python holds the entry: "dict" (a     *)
(* mapping), "obj" (V1Volume, V1VolumeMount, V1Container), "null" (None)   *)
(* or "str" (a string; its text is kept in name).                          *)
(***************************************************************************)

NoConfigMap == [name |-> "", defaultMode |-> 0, items |-> <<>>]

NullVolume == [repr |-> "null", name |-> "", configMap |-> NoConfigMap]

NullVolumeMount ==
    [repr |-> "null", name |-> "", mountPath |-> "", subPath |-> "", readOnly |-> FALSE]

\* obj["name"] if isinstance(obj, dict) else obj.name
\* A None or a str has neither: the access raises, modelled as Raises below.
get_object_name(obj) == obj.name

Raises(obj) == obj.repr \notin {"dict", "obj"}

\* Python truth of a list element: None is false, an object or a non-empty
\* mapping is true.
Truthy(obj) == obj.repr # "null"

\* patch["volumes"] of _add_volumes_to_sts_spec
VolumesPatch(self, cm_name) ==
    << [repr |-> "dict",
        name |-> self.volume_mount_name,
        configMap |-> [name |-> cm_name,
                       defaultMode |-> DefaultMode,
                       items |-> << [key |-> self.config_file_name,
                                     path |-> self.config_file_name] >>]] >>

\* patch["containers"][0]["volumeMounts"] of _add_containers_to_sts_spec;
\* the patch has no readOnly key, which reads as false.
VolumeMountsPatch(self) ==
    << [repr |-> "dict",
        name |-> self.volume_mount_name,
        mountPath |-> self.config_file_mount_path \o "/" \o self.config_file_name,
        subPath |-> self.config_file_name,
        readOnly |-> FALSE] >>

\* patch["containers"] of _add_containers_to_sts_spec
ContainersPatch(self, container_name) ==
    << [repr |-> "dict", name |-> container_name, volumeMounts |-> VolumeMountsPatch(self)] >>

\* Iterating the patch mapping yields its keys: list += patch appends them.
PatchKeys(self, container_name) ==
    << [repr |-> "str", name |-> "containers", volumeMounts |-> <<>>] >>

(***************************************************************************)
(* utils.merge_patch_object: a structural overlay by key; lists of named   *)
(* objects are merged by name, entries the base lacks are appended.        *)
(***************************************************************************)

IndexOfName(list, name) ==
    LET hits == {i \in 1..Len(list) : list[i].name = name}
    IN  IF hits = {} THEN 0 ELSE CHOOSE i \in hits : \A j \in hits : i <= j

\* A volume mapping overlaid by the patch's: the patch gives name and
\* configMap (name, defaultMode, and items, a list of unnamed entries,
\* which the patch's list replaces).
MergeVolume(base, patch) ==
    [base EXCEPT !.name = patch.name, !.configMap = patch.configMap]

\* A volumeMount mapping overlaid by the patch's: keys the patch lacks
\* (readOnly) stay.
MergeVolumeMount(base, patch) ==
    [base EXCEPT !.name = patch.name,
                 !.mountPath = patch.mountPath,
                 !.subPath = patch.subPath]

MergeVolumeList(base, patch) ==
    LET p == patch[1]
        i == IndexOfName(base, p.name)
    IN  IF i = 0 THEN Append(base, p)
        ELSE [base EXCEPT ![i] = MergeVolume(base[i], p)]

MergeVolumeMountList(base, patch) ==
    LET p == patch[1]
        i == IndexOfName(base, p.name)
    IN  IF i = 0 THEN Append(base, p)
        ELSE [base EXCEPT ![i] = MergeVolumeMount(base[i], p)]

MergeContainerList(base, patch) ==
    LET p == patch[1]
        i == IndexOfName(base, p.name)
    IN  IF i = 0 THEN Append(base, p)
        ELSE [base EXCEPT
                ![i].volumeMounts = MergeVolumeMountList(base[i].volumeMounts, p.volumeMounts)]

(***************************************************************************)
(* ConfigMapMountBase: the merge of one mount into the template            *)
(***************************************************************************)

\* Mutant: the old volume of the same name is not filtered out.
OldVolumesUnfiltered(self, volumes) ==
    SelectSeq(volumes, LAMBDA volume : Truthy(volume))

\* [volume for volume in volumes if volume and get_object_name(volume) != name]
OldVolumesFiltered(self, volumes) ==
    SelectSeq(volumes,
              LAMBDA volume : Truthy(volume)
                              /\ get_object_name(volume) # self.volume_mount_name)

\* Mutant: the comparison inverted, only the old mount of the name is kept.
OldVolumeMountsOfName(self, volume_mounts) ==
    SelectSeq(volume_mounts,
              LAMBDA vm : Truthy(vm) /\ get_object_name(vm) = self.volume_mount_name)

\* [vm for vm in container.volume_mounts if vm and get_object_name(vm) != name]
OldVolumeMountsFiltered(self, volume_mounts) ==
    SelectSeq(volume_mounts,
              LAMBDA vm : Truthy(vm) /\ get_object_name(vm) # self.volume_mount_name)

\* The typed branch's loop over the containers: the index of the first
\* element that ends it, by a match or by get_object_name raising; 0 when
\* the loop runs to its end.
LoopEnd(containers, container_name) ==
    LET ends == {i \in 1..Len(containers) :
                    \/ Raises(containers[i])
                    \/ get_object_name(containers[i]) = container_name}
    IN  IF ends = {} THEN 0 ELSE CHOOSE i \in ends : \A j \in ends : i <= j

\* What the typed branch appends when no container was found.
NotFoundAppended(self, container_name) == PatchKeys(self, container_name)

\* Returns the template and whether the call raised.
_add_containers_to_sts_spec(self, sts, container_name) ==
    IF sts.kind = "dict"
    THEN [sts |-> [sts EXCEPT !.containers =
                        MergeContainerList(sts.containers,
                                           ContainersPatch(self, container_name))],
          raised |-> FALSE]
    ELSE LET i == LoopEnd(sts.containers, container_name)
         IN  IF i = 0
             THEN [sts |-> [sts EXCEPT !.containers =
                                sts.containers \o NotFoundAppended(self, container_name)],
                   raised |-> FALSE]
             ELSE IF Raises(sts.containers[i])
             THEN [sts |-> sts, raised |-> TRUE]
             ELSE [sts |-> [sts EXCEPT !.containers[i].volumeMounts =
                                OldVolumeMountsFiltered(self, sts.containers[i].volumeMounts)
                                \o VolumeMountsPatch(self)],
                   raised |-> FALSE]

_add_volumes_to_sts_spec(self, sts, cm_name) ==
    IF sts.kind = "dict"
    THEN [sts EXCEPT !.volumes = MergeVolumeList(sts.volumes, VolumesPatch(self, cm_name))]
    ELSE [sts EXCEPT !.volumes = OldVolumesFiltered(self, sts.volumes)
                                 \o VolumesPatch(self, cm_name)]

\* The containers first, then the volumes; an exception ends the call.
add_to_sts_spec(self, sts, container_name, cm_name) ==
    LET c == _add_containers_to_sts_spec(self, sts, container_name)
    IN  IF c.raised THEN c
        ELSE [sts |-> _add_volumes_to_sts_spec(self, c.sts, cm_name), raised |-> FALSE]

(***************************************************************************)
(* The templates a reconciliation starts from                              *)
(***************************************************************************)

AsObj(entry) == [entry EXCEPT !.repr = "obj"]

DataVolume == [repr |-> "dict", name |-> "datadir", configMap |-> NoConfigMap]

DataMount ==
    [repr |-> "dict", name |-> "datadir", mountPath |-> "/var/lib/mysql",
     subPath |-> "", readOnly |-> FALSE]

VarLogMount ==
    [repr |-> "dict", name |-> "varlog", mountPath |-> "/var/log/mysql",
     subPath |-> "", readOnly |-> TRUE]

Container(name, volumeMounts) ==
    [repr |-> "dict", name |-> name, volumeMounts |-> volumeMounts]

\* Volumes lists: none of the log volumes yet; the general log's volume as a
\* previous pass left it; the same left by a pass with another file name
\* and another ConfigMap.
StartVolumes ==
    { << DataVolume >>,
      VolumesPatch(GeneralLogMount, "mycluster-logs") \o << DataVolume >>,
      VolumesPatch(RenamedGeneralLogMount, "othercluster-logs") \o << DataVolume >> }

\* Containers lists: no logcollector container; one without mounts; one
\* that mounts the general log's volume read-only under the other file name.
StartContainers ==
    { << Container("mysql", << DataMount >>) >>,
      << Container("mysql", << DataMount >>), Container("logcollector", << >>) >>,
      << Container("logcollector",
                   << [VolumeMountsPatch(RenamedGeneralLogMount)[1] EXCEPT !.readOnly = TRUE],
                      VarLogMount >>),
         Container("mysql", << DataMount >>) >> }

AsObjs(list) == [i \in 1..Len(list) |-> AsObj(list[i])]

TypedContainer(c) == [AsObj(c) EXCEPT !.volumeMounts = AsObjs(c.volumeMounts)]

\* The typed form of a dict template; with nulls, a None leads the volumes
\* and every container's volume mounts.
Typed(volumes, containers, nulls) ==
    [kind |-> "V1StatefulSet",
     volumes |-> (IF nulls THEN << NullVolume >> ELSE << >>) \o AsObjs(volumes),
     containers |->
        [i \in 1..Len(containers) |->
            [TypedContainer(containers[i]) EXCEPT !.volumeMounts =
                (IF nulls THEN << NullVolumeMount >> ELSE << >>) \o @]]]

NoMount == ConfigMapMountBase("", "", "")

NoCall == [called |-> FALSE, self |-> NoMount, cm_name |-> ""]

\* The index of the first container of that name, 0 when there is none.
Position(containers, name) ==
    LET at == {i \in 1..Len(containers) :
                  ~Raises(containers[i]) /\ containers[i].name = name}
    IN  IF at = {} THEN 0 ELSE CHOOSE i \in at : \A j \in at : i <= j

(***************************************************************************)
(* Python values of a specification fragment and of the instances' fields. *)
(* b holds a bool, n an int (a float's value in tenths), s a str's text.   *)
(***************************************************************************)

PyNone == [type |-> "NoneType", b |-> FALSE, n |-> 0, s |-> ""]

PyBool(b) == [type |-> "bool", b |-> b, n |-> IF b THEN 1 ELSE 0, s |-> ""]

PyInt(n) == [type |-> "int", b |-> FALSE, n |-> n, s |-> ""]

PyFloat(tenths) == [type |-> "float", b |-> FALSE, n |-> tenths, s |-> ""]

PyStr(s) == [type |-> "str", b |-> FALSE, n |-> 0, s |-> s]

\* bool(value)
Truth(value) ==
    CASE value.type = "NoneType" -> FALSE
      [] value.type = "bool" -> value.b
      [] value.type \in {"int", "float"} -> value.n # 0
      [] OTHER -> value.s # ""

\* isinstance(value, int) or isinstance(value, float); bool is a subclass of int.
IsIntOrFloat(value) == value.type \in {"int", "float", "bool"}

\* api_utils.dget_bool / dget_int: the field's value, or ApiSpecError when its
\* type is not the one asked for.
dget_bool(spec, field, prefix) ==
    [raised |-> spec.fields[field].type # "bool", value |-> spec.fields[field]]

dget_int(spec, field, prefix) ==
    [raised |-> spec.fields[field].type # "int", value |-> spec.fields[field]]

\* not spec: None and the empty mapping are false.
Falsy(spec) == spec.none \/ DOMAIN spec.fields = {}

Has(spec, field) == field \in DOMAIN spec.fields

(***************************************************************************)
(* GeneralLogSpec                                                          *)
(***************************************************************************)

GeneralLogSpec ==
    [mount |-> GeneralLogMount,
     _enabled |-> PyNone,
     collect |-> PyBool(FALSE),
     fileName |-> "general_query.log",
     _prefix |-> PyNone]

\* Mutant: a key the fragment lacks resets its field (spec.get(field)).
GeneralLogSpec_parse_get(self, spec, prefix) ==
    IF Falsy(spec) THEN [self |-> self, raised |-> FALSE]
    ELSE [self |-> [self EXCEPT
                      !._prefix = PyStr(prefix),
                      !._enabled = IF Has(spec, "enabled")
                                   THEN spec.fields["enabled"] ELSE PyNone,
                      !.collect = IF Has(spec, "collect")
                                  THEN spec.fields["collect"] ELSE PyBool(FALSE)],
          raised |-> \/ Has(spec, "enabled") /\ dget_bool(spec, "enabled", prefix).raised
                     \/ Has(spec, "collect") /\ dget_bool(spec, "collect", prefix).raised]

\* Each parse returns the instance and whether ApiSpecError was raised; the
\* fields set before the raise stay set.
GeneralLogSpec_parse(self, spec, prefix) ==
    IF Falsy(spec) THEN [self |-> self, raised |-> FALSE]
    ELSE
    LET s1 == [self EXCEPT !._prefix = PyStr(prefix)]
        e  == dget_bool(spec, "enabled", prefix)
        s2 == IF Has(spec, "enabled") THEN [s1 EXCEPT !._enabled = e.value] ELSE s1
        c  == dget_bool(spec, "collect", prefix)
        s3 == IF Has(spec, "collect") THEN [s2 EXCEPT !.collect = c.value] ELSE s2
    IN  IF Has(spec, "enabled") /\ e.raised THEN [self |-> s1, raised |-> TRUE]
        ELSE IF Has(spec, "collect") /\ c.raised THEN [self |-> s2, raised |-> TRUE]
        ELSE [self |-> s3, raised |-> FALSE]

\* The enabled property.
GeneralLogSpec_enabled(self) == self._enabled

\* TRUE when validate raises ApiSpecError.
GeneralLogSpec_validate(self) ==
    Truth(self.collect) /\ ~Truth(GeneralLogSpec_enabled(self))

GeneralHeader == "# Generated by MySQL Operator for Kubernetes"

\* Mutant: general_log_file is written whether or not the log is enabled.
GeneralLogSpec_mycnf_always(self) ==
    << GeneralHeader,
       "[mysqld]",
       "general_log=" \o (IF Truth(self._enabled) THEN "1" ELSE "0"),
       "general_log_file=" \o self.fileName >>

\* The f-string of get_cm_data, as its lines.
GeneralLogSpec_mycnf(self) ==
    << GeneralHeader,
       "[mysqld]",
       "general_log=" \o (IF Truth(GeneralLogSpec_enabled(self)) THEN "1" ELSE "0") >>
    \o (IF Truth(GeneralLogSpec_enabled(self))
        THEN << "general_log_file=" \o self.fileName >>
        ELSE << >>)

\* The mapping returned: config_file_name -> the body's lines.
GeneralLogSpec_get_cm_data(self) ==
    [k \in {self.mount.config_file_name} |-> GeneralLogSpec_mycnf(self)]

(***************************************************************************)
(* ErrorLogSpec                                                            *)
(***************************************************************************)

ErrorLogSpec ==
    [mount |-> ErrorLogMount,
     collect |-> PyBool(FALSE),
     verbosity |-> PyInt(3),
     error_log_name |-> "error.log",
     _prefix |-> PyNone]

ErrorLogSpec_parse(self, spec, prefix) ==
    IF Falsy(spec) THEN [self |-> self, raised |-> FALSE]
    ELSE
    LET s1 == [self EXCEPT !._prefix = PyStr(prefix)]
        v  == dget_int(spec, "verbosity", prefix)
        s2 == IF Has(spec, "verbosity") THEN [s1 EXCEPT !.verbosity = v.value] ELSE s1
        c  == dget_bool(spec, "collect", prefix)
        s3 == IF Has(spec, "collect") THEN [s2 EXCEPT !.collect = c.value] ELSE s2
    IN  IF Has(spec, "verbosity") /\ v.raised THEN [self |-> s1, raised |-> TRUE]
        ELSE IF Has(spec, "collect") /\ c.raised THEN [self |-> s2, raised |-> TRUE]
        ELSE [self |-> s3, raised |-> FALSE]

ErrorLogSpec_validate(self) ==
    self.verbosity.n < 1 \/ self.verbosity.n > 3

(***************************************************************************)
(* SlowQueryLogSpec                                                        *)
(***************************************************************************)

SlowQueryLogSpec ==
    [mount |-> SlowQueryLogMount,
     _enabled |-> PyNone,
     longQueryTime |-> PyNone,
     collect |-> PyBool(FALSE),
     fileName |-> "slow_query.log",
     _prefix |-> PyNone]

\* longQueryTime is read as spec[field], whatever its type.
SlowQueryLogSpec_parse(self, spec, prefix) ==
    IF Falsy(spec) THEN [self |-> self, raised |-> FALSE]
    ELSE
    LET s1 == [self EXCEPT !._prefix = PyStr(prefix)]
        e  == dget_bool(spec, "enabled", prefix)
        s2 == IF Has(spec, "enabled") THEN [s1 EXCEPT !._enabled = e.value] ELSE s1
        s3 == IF Has(spec, "longQueryTime")
              THEN [s2 EXCEPT !.longQueryTime = spec.fields["longQueryTime"]]
              ELSE s2
        c  == dget_bool(spec, "collect", prefix)
        s4 == IF Has(spec, "collect") THEN [s3 EXCEPT !.collect = c.value] ELSE s3
    IN  IF Has(spec, "enabled") /\ e.raised THEN [self |-> s1, raised |-> TRUE]
        ELSE IF Has(spec, "collect") /\ c.raised THEN [self |-> s3, raised |-> TRUE]
        ELSE [self |-> s4, raised |-> FALSE]

SlowQueryLogSpec_enabled(self) == self._enabled

\* Mutant: only an int is checked, a negative float passes.
LongQueryTimeNegativeInt(self) ==
    self.longQueryTime.type = "int" /\ self.longQueryTime.n < 0

\* The first check of validate.
LongQueryTimeNegative(self) ==
    IsIntOrFloat(self.longQueryTime) /\ self.longQueryTime.n < 0

\* The second check of validate.
SlowCollectWithoutEnabled(self) ==
    Truth(self._prefix) /\ Truth(self.collect) /\ ~Truth(SlowQueryLogSpec_enabled(self))

SlowQueryLogSpec_validate(self) ==
    LongQueryTimeNegative(self) \/ SlowCollectWithoutEnabled(self)

(***************************************************************************)
(* Specification fragments handed to parse                                 *)
(***************************************************************************)

FieldValues(field) ==
    CASE field \in {"enabled", "collect"} -> {PyBool(TRUE), PyBool(FALSE), PyStr("yes")}
      [] field = "verbosity" -> {PyInt(0), PyInt(2), PyInt(4), PyStr("high")}
      [] OTHER -> {PyInt(-1), PyInt(0), PyFloat(-5), PyFloat(25), PyStr("-1")}

Fields == {"enabled", "collect", "verbosity", "longQueryTime"}

PyValues == UNION {FieldValues(field) : field \in Fields}

NoneFragment == [none |-> TRUE, fields |-> << >>]

Fragments ==
    {NoneFragment} \cup
    {[none |-> FALSE, fields |-> f] :
        f \in UNION {{g \in [K -> PyValues] : \A k \in K : g[k] \in FieldValues(k)} :
                     K \in SUBSET Fields}}

WellTyped(spec) ==
    \A k \in DOMAIN spec.fields :
        \/ k \in {"enabled", "collect"} /\ spec.fields[k].type = "bool"
        \/ k = "verbosity" /\ spec.fields[k].type = "int"
        \/ k = "longQueryTime" /\ spec.fields[k].type \in {"int", "float"}

Prefixes(kind) == {"", "spec.logs." \o kind}

ServerLogType == {"error", "general", "slowQuery"}

NoData == << >>

\* The record of an operation on the instance a behaviour follows.
Op(kind, name, raised, spec, data) ==
    [kind |-> kind, name |-> name, raised |-> raised,
     falsy |-> Falsy(spec), keys |-> DOMAIN spec.fields, welltyped |-> WellTyped(spec),
     data |-> data]

LogsConstructed ==
    /\ general = GeneralLogSpec
    /\ error = ErrorLogSpec
    /\ slow = SlowQueryLogSpec

\* The three instances share no state: a behaviour follows one of them.
LogsInit ==
    /\ LogsConstructed
    /\ \E kind \in ServerLogType : op = Op(kind, "__init__", FALSE, NoneFragment, NoData)

GeneralParse(spec, prefix) ==
    LET r == GeneralLogSpec_parse(general, spec, prefix)
    IN  /\ op.kind = "general"
        /\ general' = r.self
        /\ op' = Op("general", "parse", r.raised, spec, NoData)
        /\ UNCHANGED <<error, slow>>
        /\ UNCHANGED stsVars

GeneralValidate ==
    /\ op.kind = "general"
    /\ op' = Op("general", "validate", GeneralLogSpec_validate(general), NoneFragment, NoData)
    /\ UNCHANGED <<general, error, slow>>
    /\ UNCHANGED stsVars

GeneralGetCmData ==
    /\ op.kind = "general"
    /\ op' = Op("general", "get_cm_data", FALSE, NoneFragment,
                GeneralLogSpec_get_cm_data(general))
    /\ UNCHANGED <<general, error, slow>>
    /\ UNCHANGED stsVars

ErrorParse(spec, prefix) ==
    LET r == ErrorLogSpec_parse(error, spec, prefix)
    IN  /\ op.kind = "error"
        /\ error' = r.self
        /\ op' = Op("error", "parse", r.raised, spec, NoData)
        /\ UNCHANGED <<general, slow>>
        /\ UNCHANGED stsVars

ErrorValidate ==
    /\ op.kind = "error"
    /\ op' = Op("error", "validate", ErrorLogSpec_validate(error), NoneFragment, NoData)
    /\ UNCHANGED <<general, error, slow>>
    /\ UNCHANGED stsVars

SlowParse(spec, prefix) ==
    LET r == SlowQueryLogSpec_parse(slow, spec, prefix)
    IN  /\ op.kind = "slowQuery"
        /\ slow' = r.self
        /\ op' = Op("slowQuery", "parse", r.raised, spec, NoData)
        /\ UNCHANGED <<general, error>>
        /\ UNCHANGED stsVars

SlowValidate ==
    /\ op.kind = "slowQuery"
    /\ op' = Op("slowQuery", "validate", SlowQueryLogSpec_validate(slow), NoneFragment, NoData)
    /\ UNCHANGED <<general, error, slow>>
    /\ UNCHANGED stsVars

\* A reconciliation patches one container's mounts: its container name is
\* the same for every log spec.
InitSts ==
    \E volumes \in StartVolumes, containers \in StartContainers, nulls \in BOOLEAN,
       container_name \in ContainerNames :
        /\ dsts = [kind |-> "dict", volumes |-> volumes, containers |-> containers]
        /\ tsts = Typed(volumes, containers, nulls)
        /\ dsts0 = dsts
        /\ tsts0 = tsts
        /\ last = NoCall
        /\ applied = {}
        /\ cms = {}
        /\ args = [container_name |-> container_name]

\* While the template is patched the log spec instances stay as constructed.
Init ==
    /\ InitSts
    /\ LogsConstructed
    /\ op = Op("general", "__init__", FALSE, NoneFragment, NoData)

\* One reconciliation step: add_to_sts_spec on the template, in each form.
AddToStsSpec(self, cm_name) ==
    LET d == add_to_sts_spec(self, dsts, args.container_name, cm_name)
        t == add_to_sts_spec(self, tsts, args.container_name, cm_name)
    IN  /\ dsts' = d.sts
        /\ tsts' = t.sts
        /\ last' = [called |-> TRUE,
                    self |-> self,
                    cm_name |-> cm_name,
                    prev |-> last.self,
                    prev_cm_name |-> last.cm_name,
                    found |-> Position(tsts.containers, args.container_name) # 0,
                    traised |-> t.raised]
        /\ applied' = applied \cup {self}
        /\ cms' = cms \cup {cm_name}
        /\ UNCHANGED <<dsts0, tsts0, args>>
        /\ UNCHANGED logVars

Next == \E self \in Mounts, cm_name \in CmNames : AddToStsSpec(self, cm_name)

Spec == Init /\ [][Next]_vars

\* While the log spec instances are driven the template is left alone.
InitLogs ==
    /\ LogsInit
    /\ dsts = [kind |-> "dict", volumes |-> << DataVolume >>,
               containers |-> << Container("mysql", << DataMount >>) >>]
    /\ tsts = Typed(dsts.volumes, dsts.containers, FALSE)
    /\ dsts0 = dsts
    /\ tsts0 = tsts
    /\ last = NoCall
    /\ applied = {}
    /\ cms = {}
    /\ args = [container_name |-> "logcollector"]

NextLogs ==
    \/ \E spec \in Fragments, prefix \in Prefixes("general") : GeneralParse(spec, prefix)
    \/ GeneralValidate
    \/ GeneralGetCmData
    \/ \E spec \in Fragments, prefix \in Prefixes("error") : ErrorParse(spec, prefix)
    \/ ErrorValidate
    \/ \E spec \in Fragments, prefix \in Prefixes("slowQuery") : SlowParse(spec, prefix)
    \/ SlowValidate

SpecLogs == InitLogs /\ [][NextLogs]_vars

(***************************************************************************)
(* Properties of the template merge                                        *)
(***************************************************************************)

Forms == {"dict", "V1StatefulSet"}

Sts(form) == IF form = "dict" THEN dsts ELSE tsts

Sts0(form) == IF form = "dict" THEN dsts0 ELSE tsts0

Named(list, name) == SelectSeq(list, LAMBDA e : ~Raises(e) /\ e.name = name)

\* The entries a merge for that name has to leave alone.
Others(list, name) == SelectSeq(list, LAMBDA e : e.repr # "null" /\ e.name # name)

\* The target container existed when the reconciliation started.
TargetExists == Position(dsts0.containers, args.container_name) # 0

TargetMounts(sts) ==
    LET i == Position(sts.containers, args.container_name)
    IN  IF i = 0 THEN << >> ELSE sts.containers[i].volumeMounts

ExactlyOne(sts, self) ==
    /\ Len(Named(sts.volumes, self.volume_mount_name)) = 1
    /\ Len(Named(TargetMounts(sts), self.volume_mount_name)) = 1

\* The latest call had the arguments of the call before it.
Again == last.called /\ last.prev = last.self /\ last.prev_cm_name = last.cm_name

\* C1 (idempotence of add_to_sts_spec): in either representation, on a
\* template whose target container exists, after a call there is exactly
\* one Volume and, in the target container, exactly one VolumeMount named
\* volume_mount_name, and a call that repeats the call before it (same log
\* spec, container name and ConfigMap name) leaves the template as it was.
C1_Idempotent ==
    /\ [](TargetExists /\ last.called =>
            \A form \in Forms : ExactlyOne(Sts(form), last.self))
    /\ [][TargetExists /\ last.called
             /\ last'.self = last.self /\ last'.cm_name = last.cm_name =>
            dsts' = dsts /\ tsts' = tsts]_vars

C1_Witness ==
    /\ TargetExists
    /\ Again
    /\ Len(tsts.volumes) >= 3

\* The latest call changed the file name of the call before it.
Changed ==
    /\ last.called
    /\ last.prev.volume_mount_name = last.self.volume_mount_name
    /\ last.prev.config_file_name # last.self.config_file_name

OnlyDataOf(sts, self, stale) ==
    /\ ExactlyOne(sts, self)
    /\ Named(sts.volumes, self.volume_mount_name)[1].configMap.items
         = << [key |-> self.config_file_name, path |-> self.config_file_name] >>
    /\ LET vm == Named(TargetMounts(sts), self.volume_mount_name)[1]
       IN  /\ vm.mountPath = self.config_file_mount_path \o "/" \o self.config_file_name
           /\ vm.subPath = self.config_file_name
    /\ \A i \in 1..Len(sts.volumes) :
         \A k \in 1..Len(sts.volumes[i].configMap.items) :
            sts.volumes[i].configMap.items[k].key # stale.config_file_name
    /\ \A k \in 1..Len(TargetMounts(sts)) :
         TargetMounts(sts)[k].subPath # stale.config_file_name

\* C2 (dedup on change): after descriptor A and then descriptor B (A's
\* volume_mount_name, another config_file_name) there is exactly one Volume
\* and one VolumeMount of that name, both with B's data only.
C2_DedupOnChange ==
    Changed => \A form \in Forms : OnlyDataOf(Sts(form), last.self, last.prev)

\* C2 where the target container exists.
C2_DedupOnChangeWhenFound == TargetExists => C2_DedupOnChange

RECURSIVE ApplyAll(_, _, _)
ApplyAll(sts, selves, cm_name) ==
    IF selves = << >> THEN sts
    ELSE ApplyAll(add_to_sts_spec(Head(selves), sts, args.container_name, cm_name).sts,
                  Tail(selves), cm_name)

\* The log specs of a set, one after the other in a fixed order.
InOrder(selves) ==
    SelectSeq(<< ErrorLogMount, GeneralLogMount, SlowQueryLogMount >>,
              LAMBDA self : self \in selves)

VolumeNames ==
    {"datadir", "varlog"} \cup {self.volume_mount_name : self \in Mounts}

SameEntries(a, b) ==
    /\ \A name \in VolumeNames : Named(a.volumes, name) = Named(b.volumes, name)
    /\ Len(a.containers) = Len(b.containers)
    /\ \A i \in 1..Len(a.containers) :
         /\ i <= Len(b.containers)
         /\ a.containers[i].repr = b.containers[i].repr
         /\ a.containers[i].name = b.containers[i].name
         /\ \A name \in VolumeNames :
              Named(a.containers[i].volumeMounts, name)
                = Named(b.containers[i].volumeMounts, name)

\* C3 (order independence): whatever the order and the repetitions in which
\* the error, general and slow-query log specs were applied (with one
\* container name and one ConfigMap name), each volume
\* name and each mount name has the entry it has when the same log specs
\* are applied once each in a fixed order to the starting template.
C3_OrderIndependent ==
    \A cm_name \in CmNames :
        applied \subseteq LogSpecMounts /\ cms = {cm_name} =>
            \A form \in Forms :
                SameEntries(Sts(form), ApplyAll(Sts0(form), InOrder(applied), cm_name))

\* C3 where the target container exists.
C3_OrderIndependentWhenFound == TargetExists => C3_OrderIndependent

\* What a template describes, whatever its representation: the volumes with
\* their ConfigMap source and items, and each container's mounts with their
\* paths.
Elements(list) == {list[i] : i \in {j \in 1..Len(list) : list[j].repr # "null"}}

MountsDescribed(volumeMounts) ==
    {[name |-> vm.name, mountPath |-> vm.mountPath, subPath |-> vm.subPath] :
        vm \in Elements(volumeMounts)}

Describes(sts) ==
    [volumes |-> {[name |-> v.name, configMap |-> v.configMap] : v \in Elements(sts.volumes)},
     containers |-> {[container |-> ~Raises(c),
                      name |-> c.name,
                      volumeMounts |-> MountsDescribed(c.volumeMounts)] :
                        c \in Elements(sts.containers)}]

\* C4 (representation equivalence): a dict template and a typed template
\* that describe the same volumes, containers and mounts still describe the
\* same after add_to_sts_spec with the same arguments on each.
C4_SameInBothForms ==
    Describes(dsts0) = Describes(tsts0) => Describes(dsts) = Describes(tsts)

\* C4 where the target container exists.
C4_SameInBothFormsWhenFound == TargetExists => C4_SameInBothForms

\* C9 (missing container, typed form): after add_to_sts_spec on a typed
\* template without the target container, every element of the containers
\* list is a named container, one of them is the target, and it carries
\* exactly one VolumeMount (with the descriptor's paths) for each log spec
\* applied since, none of the calls having raised.
C9_Bootstrap ==
    ~TargetExists /\ last.called =>
        /\ ~last.traised
        /\ \A i \in 1..Len(tsts.containers) : ~Raises(tsts.containers[i])
        /\ Position(tsts.containers, args.container_name) # 0
        /\ Len(TargetMounts(tsts)) = Cardinality({self.volume_mount_name : self \in applied})
        /\ \A self \in applied :
             Len(Named(TargetMounts(tsts), self.volume_mount_name)) = 1
        /\ Named(TargetMounts(tsts), last.self.volume_mount_name) = VolumeMountsPatch(last.self)

\* C10 (frame of the typed merge): a call on a typed template whose target
\* container exists keeps, in their order, the non-null Volumes and the
\* target's non-null VolumeMounts of other names, keeps every other
\* container as it is, and puts the new Volume and VolumeMount last.
C10_TypedFrame ==
    [][TargetExists /\ last'.called =>
        LET self == last'.self
            i == Position(tsts.containers, args.container_name)
        IN  /\ tsts'.volumes = Others(tsts.volumes, self.volume_mount_name)
                                 \o VolumesPatch(self, last'.cm_name)
            /\ Len(tsts'.containers) = Len(tsts.containers)
            /\ \A j \in 1..Len(tsts.containers) :
                  j # i => tsts'.containers[j] = tsts.containers[j]
            /\ tsts'.containers[i].name = tsts.containers[i].name
            /\ tsts'.containers[i].repr = tsts.containers[i].repr
            /\ tsts'.containers[i].volumeMounts
                 = Others(tsts.containers[i].volumeMounts, self.volume_mount_name)
                     \o VolumeMountsPatch(self)]_stsVars

C10_Witness ==
    /\ TargetExists
    /\ last.called
    /\ tsts0.volumes[1] = NullVolume
    /\ \E i \in 1..Len(tsts.volumes) : tsts.volumes[i].name = "datadir"
    /\ \A i \in 1..Len(tsts.volumes) : tsts.volumes[i] # NullVolume
    /\ Len(TargetMounts(tsts)) >= 3


(***************************************************************************)
(* Properties of the log specs                                             *)
(***************************************************************************)

Validated(kind) == op.kind = kind /\ op.name = "validate" /\ ~op.raised

\* C5 (collect requires enabled): when validate() of the general or of the
\* slow-query log spec returns normally, collect is not true with enabled
\* false or unset, whatever prefix parse stored.
C5_CollectRequiresEnabled ==
    /\ Validated("general") => (Truth(general.collect) => Truth(general._enabled))
    /\ Validated("slowQuery") => (Truth(slow.collect) => Truth(slow._enabled))

\* C5 for GeneralLogSpec alone.
C5_GeneralCollectRequiresEnabled ==
    Validated("general") => (Truth(general.collect) => Truth(general._enabled))

NonNegativeNumber(value) == value.type \in {"int", "float"} /\ value.n >= 0

\* C6 as claimed (non-negative longQueryTime): when validate() of the
\* slow-query log spec returns normally after parse of any fragment,
\* longQueryTime is absent or a non-negative number.
C6_LongQueryTimeNonNegative ==
    Validated("slowQuery") =>
        slow.longQueryTime = PyNone \/ NonNegativeNumber(slow.longQueryTime)

\* C6 as amended: when parse stored a number (an int or a float) or nothing
\* as longQueryTime and validate() returns normally, longQueryTime is
\* absent or non-negative; validate() raises for every negative number,
\* whatever collect and enabled are.
C6_NumberNonNegative ==
    /\ Validated("slowQuery") /\ slow.longQueryTime.type \in {"NoneType", "int", "float"} =>
          slow.longQueryTime = PyNone \/ NonNegativeNumber(slow.longQueryTime)
    /\ op.kind = "slowQuery" /\ op.name = "validate"
          /\ slow.longQueryTime.type \in {"int", "float"} /\ slow.longQueryTime.n < 0 =>
          op.raised

C6_Witness ==
    /\ op.kind = "slowQuery" /\ op.name = "validate" /\ op.raised
    /\ slow.longQueryTime = PyInt(-1)
    /\ slow.collect = PyBool(TRUE)
    /\ slow._enabled = PyBool(TRUE)

Rendered == op.kind = "general" /\ op.name = "get_cm_data"

\* C7 as claimed (general log rendering): get_cm_data returns the single
\* key general-log.cnf, its body exactly the lines [mysqld], general_log=1,
\* general_log_file=<fileName> when enabled is true and exactly the lines
\* [mysqld], general_log=0 otherwise.
C7_BodyExactly ==
    Rendered =>
        /\ DOMAIN op.data = {"general-log.cnf"}
        /\ op.data["general-log.cnf"] =
             IF general._enabled = PyBool(TRUE)
             THEN << "[mysqld]", "general_log=1", "general_log_file=general_query.log" >>
             ELSE << "[mysqld]", "general_log=0" >>

\* C7 as amended: the body is the comment line "# Generated by MySQL
\* Operator for Kubernetes" followed by exactly those lines.
C7_BodyAfterHeader ==
    Rendered =>
        /\ DOMAIN op.data = {"general-log.cnf"}
        /\ op.data["general-log.cnf"] =
             << "# Generated by MySQL Operator for Kubernetes" >> \o
             (IF general._enabled = PyBool(TRUE)
              THEN << "[mysqld]", "general_log=1", "general_log_file=general_query.log" >>
              ELSE << "[mysqld]", "general_log=0" >>)

C7_Witness ==
    /\ Rendered
    /\ general._enabled = PyBool(TRUE)
    /\ Len(op.data["general-log.cnf"]) = 4

\* C8 (parse touches only what the fragment names): parse with an absent
\* or empty fragment changes no field of the instance and raises nothing;
\* parse with a non-empty well-typed fragment raises nothing and leaves
\* every field whose key the fragment lacks as it was (the stored prefix
\* aside).
C8_ParseFrame ==
    [][op'.name = "parse" =>
        /\ op'.falsy =>
             /\ ~op'.raised
             /\ general' = general /\ error' = error /\ slow' = slow
        /\ ~op'.falsy /\ op'.welltyped =>
             /\ ~op'.raised
             /\ "enabled" \notin op'.keys =>
                  general'._enabled = general._enabled /\ slow'._enabled = slow._enabled
             /\ "collect" \notin op'.keys =>
                  /\ general'.collect = general.collect
                  /\ error'.collect = error.collect
                  /\ slow'.collect = slow.collect
             /\ "verbosity" \notin op'.keys => error'.verbosity = error.verbosity
             /\ "longQueryTime" \notin op'.keys => slow'.longQueryTime = slow.longQueryTime
             /\ general'.fileName = general.fileName /\ general'.mount = general.mount
             /\ error'.error_log_name = error.error_log_name /\ error'.mount = error.mount
             /\ slow'.fileName = slow.fileName /\ slow'.mount = slow.mount]_logVars

C8_Witness ==
    /\ op.kind = "general" /\ op.name = "parse" /\ ~op.raised
    /\ op.keys = {"collect"}
    /\ general.collect = PyBool(TRUE)
    /\ general._enabled = PyNone
    /\ general._prefix = PyStr("spec.logs.general")

====
